---------------------------- MODULE Spec2Model ----------------------------
(***************************************************************************)
(* A model of brieflyAI (src/app.py): the caption filter, the date         *)
(* validator, the JSON recoverer, the item normaliser, the two ingestion   *)
(* loops with their row accumulation, the task-push loop and the OAuth     *)
(* credential helper.                                                      *)
(*                                                                         *)
(* Text is a sequence of one-character strings, so that the regular        *)
(* expressions of the source are evaluated character by character.         *)
(* The model's alphabet is ASCII: the Unicode digits and spaces that       *)
(* Python's \d and \s also accept are not modelled.                        *)
(***************************************************************************)
EXTENDS Integers, Sequences, FiniteSets, TLC

VARIABLES
    vpc, vtt_text, once, twice,          \* caption filter: stage, input, one pass, two passes
    today,                               \* date.today() of the system clock
    dpc, cand, due_out,                  \* date validator: stage, candidate, result
    jpc, jtext, jdata,                   \* recoverer: stage, model output, recovered value
    ppc, reply, prompt, result,          \* pipeline: stage, what the model gives, prompt sent, outcome
    apc, batch, idx, sent, status,       \* ingestion: handler, its transcripts, loop position, text analysed, message shown
    rows,                                \* st.session_state.rows
    drive_creds,                         \* st.session_state.drive_creds
    drive_files,                         \* the transcripts the Drive listing shows
    token, client_secrets,               \* token.*.json files, credentials.json
    tpc, creds, to_push, pidx, created,  \* task creation: stage, credentials in use, selection, loop position, count
    tasks, errors                        \* tasks inserted, errors shown

vttVars == <<vpc, vtt_text, once, twice>>
dateVars == <<dpc, cand, due_out>>
jsonVars == <<jpc, jtext, jdata>>
pipeVars == <<ppc, reply, prompt, result>>
appVars == <<apc, batch, idx, sent, status>>
credVars == <<token, client_secrets, tpc, creds, to_push, pidx, created, tasks, errors>>

vars == <<vttVars, today, dateVars, jsonVars, pipeVars, appVars, rows, drive_creds, drive_files, credVars>>

---------------------------------------------------------------------------
(* Characters and strings                                                  *)

Digits == <<"0", "1", "2", "3", "4", "5", "6", "7", "8", "9">>

UpperLetters ==
    <<"A", "B", "C", "D", "E", "F", "G", "H", "I", "J", "K", "L", "M",
      "N", "O", "P", "Q", "R", "S", "T", "U", "V", "W", "X", "Y", "Z">>

LowerLetters ==
    <<"a", "b", "c", "d", "e", "f", "g", "h", "i", "j", "k", "l", "m",
      "n", "o", "p", "q", "r", "s", "t", "u", "v", "w", "x", "y", "z">>

Range(f) == {f[i] : i \in DOMAIN f}

DigitSet == Range(Digits)
WordSet == DigitSet \cup Range(UpperLetters) \cup Range(LowerLetters) \cup {"_"}

\* \d
IsDigit(c) == c \in DigitSet

\* \s, and the characters str.strip() removes
IsSpace(c) == c \in {" ", "\t", "\n", "\r"}

\* \w
IsWord(c) == c \in WordSet

\* int() of one digit
DigitVal(c) == (CHOOSE i \in 1..10 : Digits[i] = c) - 1

\* str.lower() of one character
LowerChar(c) ==
    IF c \in Range(UpperLetters)
    THEN LowerLetters[CHOOSE i \in 1..26 : UpperLetters[i] = c]
    ELSE c

\* str.upper() of one character
UpperChar(c) ==
    IF c \in Range(LowerLetters)
    THEN UpperLetters[CHOOSE i \in 1..26 : LowerLetters[i] = c]
    ELSE c

Lower(s) == [i \in 1..Len(s) |-> LowerChar(s[i])]
Upper(s) == [i \in 1..Len(s) |-> UpperChar(s[i])]

\* s[i-1:j-1] of Python, for 1-based i and exclusive j
Slice(s, i, j) == IF j <= i THEN <<>> ELSE SubSeq(s, i, j - 1)

\* whether the text p occurs in s at position i
OccursAt(s, i, p) ==
    /\ i >= 1
    /\ i + Len(p) - 1 <= Len(s)
    /\ \A k \in 1..Len(p) : s[i + k - 1] = p[k]

StartsWith(s, p) == OccursAt(s, 1, p)
EndsWith(s, p) == OccursAt(s, Len(s) - Len(p) + 1, p)
Contains(s, p) == \E i \in 1..(Len(s) + 1) : OccursAt(s, i, p)

\* n digits from position i on
DigitsAt(s, i, n) ==
    /\ i >= 1
    /\ i + n - 1 <= Len(s)
    /\ \A k \in i..(i + n - 1) : IsDigit(s[k])

\* \b between positions i-1 and i
WordBoundary(s, i) ==
    LET before == i - 1 >= 1 /\ i - 1 <= Len(s) /\ IsWord(s[i - 1])
        after  == i >= 1 /\ i <= Len(s) /\ IsWord(s[i])
    IN  before # after

\* the least and the greatest member of a non-empty set of integers
Least(S) == CHOOSE k \in S : \A j \in S : k <= j
Greatest(S) == CHOOSE k \in S : \A j \in S : k >= j

\* the one element of a set of one element; The({e(v) : v \in {x}}) is e of
\* the value of x, with x worked out once
The(S) == CHOOSE x \in S : TRUE

\* the pieces P(lo), ..., P(hi) joined in order (split in halves, so that the
\* depth of the evaluation stays logarithmic in the length of the text)
RECURSIVE FlatMap(_, _, _)
FlatMap(P(_), lo, hi) ==
    IF lo > hi THEN <<>>
    ELSE IF lo = hi THEN P(lo)
    ELSE The({FlatMap(P, lo, mid) \o FlatMap(P, mid + 1, hi) :
                 mid \in {(lo + hi) \div 2}})

\* the first position from i on that holds no space (Len(s) + 1 when none)
SkipSpaces(s, i) ==
    Least({j \in i..(Len(s) + 1) : j > Len(s) \/ ~IsSpace(s[j])})

\* the last position down from j that holds no space (0 when none)
SkipSpacesBack(s, j) ==
    Greatest({i \in 0..j : i = 0 \/ ~IsSpace(s[i])})

\* str.strip()
Strip(s) == Slice(s, SkipSpaces(s, 1), SkipSpacesBack(s, Len(s)) + 1)

\* str.isdigit()
IsDigitStr(s) == Len(s) > 0 /\ \A k \in 1..Len(s) : IsDigit(s[k])

\* "".join(parts)
Concat(parts) == LET P(k) == parts[k] IN FlatMap(P, 1, Len(parts))

\* " ".join(lines)
JoinSpace(lines) ==
    LET P(k) == IF k = 1 THEN lines[k] ELSE <<" ">> \o lines[k]
    IN  FlatMap(P, 1, Len(lines))

\* whether a line boundary of str.splitlines() starts at position k: \n, \r or
\* the \r of \r\n (the \n of \r\n belongs to the boundary its \r starts)
BreakAt(s, k) ==
    /\ k >= 1 /\ k <= Len(s)
    /\ \/ s[k] = "\r"
       \/ s[k] = "\n" /\ ~(k > 1 /\ s[k - 1] = "\r")

BreakLen(s, k) == IF s[k] = "\r" /\ k < Len(s) /\ s[k + 1] = "\n" THEN 2 ELSE 1

\* str.splitlines() from position i on: no empty last line
RECURSIVE SplitLinesFrom(_, _)
SplitLinesFrom(s, i) ==
    IF i > Len(s) THEN <<>>
    ELSE LET breaks == {k \in i..Len(s) : BreakAt(s, k)}
         IN  IF breaks = {} THEN <<Slice(s, i, Len(s) + 1)>>
             ELSE The({<<Slice(s, i, b)>> \o SplitLinesFrom(s, b + BreakLen(s, b)) :
                          b \in {Least(breaks)}})

SplitLines(s) == SplitLinesFrom(s, 1)

\* re.sub(r"\s{2,}", " ", s): of a run of two or more spaces only its first
\* position is kept, as " "; a lone space stays what it is
CollapseSpaces(s) ==
    LET P(k) ==
            IF ~IsSpace(s[k]) THEN <<s[k]>>
            ELSE IF k > 1 /\ IsSpace(s[k - 1]) THEN <<>>
            ELSE IF k < Len(s) /\ IsSpace(s[k + 1]) THEN <<" ">>
            ELSE <<s[k]>>
    IN  FlatMap(P, 1, Len(s))

---------------------------------------------------------------------------
(* Caption filter                                                          *)

\* \d{2}:\d{2}:\d{2}\.\d{3} at position i (12 characters)
TimestampAt(s, i) ==
    /\ DigitsAt(s, i, 2) /\ OccursAt(s, i + 2, <<":">>)
    /\ DigitsAt(s, i + 3, 2) /\ OccursAt(s, i + 5, <<":">>)
    /\ DigitsAt(s, i + 6, 2) /\ OccursAt(s, i + 8, <<".">>)
    /\ DigitsAt(s, i + 9, 3)

\* VTT_TS_LINE.match(line)
VTT_TS_LINE(line) ==
    /\ TimestampAt(line, 1)
    /\ LET a == SkipSpaces(line, 13)
       IN  /\ OccursAt(line, a, <<"-", "-", ">">>)
           /\ TimestampAt(line, SkipSpaces(line, a + 3))

\* the ends of \d{1,2} from i, the greedy choice first
InlineLead(s, i) ==
    (IF DigitsAt(s, i, 2) THEN <<i + 2>> ELSE <<>>)
        \o (IF DigitsAt(s, i, 1) THEN <<i + 1>> ELSE <<>>)

\* the ends of :\d{2} from p
InlineMinutes(s, p) ==
    IF OccursAt(s, p, <<":">>) /\ DigitsAt(s, p + 1, 2) THEN <<p + 3>> ELSE <<>>

\* the ends of (:\d{2})? from p
InlineSeconds(s, p) == InlineMinutes(s, p) \o <<p>>

\* the ends of (?:\.\d{1,3})? from p
InlineFraction(s, p) ==
    (IF OccursAt(s, p, <<".">>)
     THEN (IF DigitsAt(s, p + 1, 3) THEN <<p + 4>> ELSE <<>>)
            \o (IF DigitsAt(s, p + 1, 2) THEN <<p + 3>> ELSE <<>>)
            \o (IF DigitsAt(s, p + 1, 1) THEN <<p + 2>> ELSE <<>>)
     ELSE <<>>) \o <<p>>

\* every end the pattern can reach from i before its closing \b, in the
\* order the backtracking matcher tries them
InlineEnds(s, i) ==
    LET Mins(lead) == Concat([k \in 1..Len(lead) |-> InlineMinutes(s, lead[k])])
        Secs(mins) == Concat([k \in 1..Len(mins) |-> InlineSeconds(s, mins[k])])
        Fracs(secs) == Concat([k \in 1..Len(secs) |-> InlineFraction(s, secs[k])])
    IN  The({The({The({Fracs(secs) : secs \in {Secs(mins)}}) :
                     mins \in {Mins(lead)}}) :
                lead \in {InlineLead(s, i)}})

\* VTT_INLINE_TS matched at position i: the position after the match, 0 if none
VTT_INLINE_TS(s, i) ==
    IF ~WordBoundary(s, i) THEN 0
    ELSE LET First(ends) ==
                 LET good == {k \in 1..Len(ends) : WordBoundary(s, ends[k])}
                 IN  IF good = {} THEN 0 ELSE ends[Least(good)]
         IN  The({First(ends) : ends \in {InlineEnds(s, i)}})

\* VTT_INLINE_TS.sub(" ", line) from position i on: the leftmost match is
\* replaced and the scan goes on after it
RECURSIVE SubInlineFrom(_, _)
SubInlineFrom(s, i) ==
    LET starts == {k \in i..Len(s) : VTT_INLINE_TS(s, k) > 0}
    IN  IF starts = {} THEN Slice(s, i, Len(s) + 1)
        ELSE The({Slice(s, i, k) \o <<" ">> \o The({SubInlineFrom(s, e) : e \in {VTT_INLINE_TS(s, k)}}) :
                     k \in {Least(starts)}})

SubInline(line) == SubInlineFrom(line, 1)

\* a faulty variant of CleanLine: the line is not stripped after the substitution
CleanLineNoStrip(line) == SubInline(line)

\* the line after the inline timecodes are replaced and the ends stripped
CleanLine(line) == The({Strip(t) : t \in {SubInline(line)}})

HeaderTokens ==
    << <<"w", "e", "b", "v", "t", "t">>,
       <<"k", "i", "n", "d", ":">>,
       <<"l", "a", "n", "g", "u", "a", "g", "e", ":">> >>

\* line.lower().startswith(("webvtt", "kind:", "language:"))
IsHeaderLine(line) ==
    \E k \in 1..Len(HeaderTokens) : StartsWith(Lower(line), HeaderTokens[k])

\* what the loop of parse_vtt keeps of one line
KeptOf(raw_line) ==
    IF VTT_TS_LINE(raw_line) THEN <<>>
    ELSE LET Kept(line) ==
                 IF line = <<>> THEN <<>>
                 ELSE IF IsDigitStr(line) THEN <<>>
                 ELSE IF IsHeaderLine(line) THEN <<>>
                 ELSE <<line>>
         IN  The({Kept(line) : line \in {CleanLine(raw_line)}})

\* the loop of parse_vtt over the lines
KeepLines(lines) == LET P(k) == KeptOf(lines[k]) IN FlatMap(P, 1, Len(lines))

parse_vtt(vtt_text_) ==
    LET Lines == SplitLines(vtt_text_)
        Joined(kept) == The({CollapseSpaces(j) : j \in {JoinSpace(kept)}})
    IN  The({The({The({Strip(c) : c \in {Joined(kept)}}) :
                     kept \in {KeepLines(lines)}}) :
                lines \in {Lines}})

---------------------------------------------------------------------------
(* Python values: what json.loads returns, and None                        *)

JNull == [t |-> "null"]
JBool(b) == [t |-> "bool", v |-> b]
JNum(n) == [t |-> "num", v |-> n]
JStr(s) == [t |-> "str", v |-> s]
JArr(a) == [t |-> "arr", v |-> a]
JObj(f) == [t |-> "obj", v |-> f]

\* bool(x)
Truthy(x) ==
    CASE x.t = "null" -> FALSE
      [] x.t = "bool" -> x.v
      [] x.t = "num" -> x.v # 0
      [] x.t = "str" -> Len(x.v) > 0
      [] x.t = "arr" -> Len(x.v) > 0
      [] x.t = "obj" -> DOMAIN x.v # {}

\* what a call gives: the value it returns, or the exception it raises
Return(x) == [raised |-> FALSE, val |-> x]
Raise(e) == [raised |-> TRUE, exc |-> e]

NoneStr == <<"N", "o", "n", "e">>

---------------------------------------------------------------------------
(* Date validator                                                          *)

Date(y, m, d) == [y |-> y, m |-> m, d |-> d]

\* int() of the digits s[i..i+n-1]
RECURSIVE IntAt(_, _, _)
IntAt(s, i, n) ==
    IF n = 0 THEN 0 ELSE 10 * IntAt(s, i, n - 1) + DigitVal(s[i + n - 1])

\* ISO_DATE_RE matched at position i:
\* \b(20\d{2})-(0[1-9]|1[0-2])-(0[1-9]|[12]\d|3[01])\b
ISO_DATE_RE(s, i) ==
    /\ i >= 1 /\ i + 9 <= Len(s)
    /\ WordBoundary(s, i)
    /\ s[i] = "2" /\ s[i + 1] = "0" /\ DigitsAt(s, i + 2, 2)
    /\ s[i + 4] = "-"
    /\ \/ s[i + 5] = "0" /\ IsDigit(s[i + 6]) /\ s[i + 6] # "0"
       \/ s[i + 5] = "1" /\ s[i + 6] \in {"0", "1", "2"}
    /\ s[i + 7] = "-"
    /\ \/ s[i + 8] = "0" /\ IsDigit(s[i + 9]) /\ s[i + 9] # "0"
       \/ s[i + 8] \in {"1", "2"} /\ IsDigit(s[i + 9])
       \/ s[i + 8] = "3" /\ s[i + 9] \in {"0", "1"}
    /\ WordBoundary(s, i + 10)

\* ISO_DATE_RE.search(s): the position of the first match, 0 if none
ISO_DATE_RE_search(s) ==
    LET hits == {i \in 1..Len(s) : ISO_DATE_RE(s, i)}
    IN  IF hits = {} THEN 0 ELSE Least(hits)

IsLeap(y) == (y % 4 = 0 /\ y % 100 # 0) \/ y % 400 = 0

DaysInMonth(y, m) ==
    IF m = 2 THEN (IF IsLeap(y) THEN 29 ELSE 28)
    ELSE IF m \in {4, 6, 9, 11} THEN 30
    ELSE 31

\* datetime.strptime(text, "%Y-%m-%d").date() of a matched text: the date,
\* or ValueError when the day is not one of the month
strptime(text) ==
    LET y == IntAt(text, 1, 4)
        m == IntAt(text, 6, 2)
        d == IntAt(text, 9, 2)
    IN  IF y >= 1 /\ m \in 1..12 /\ d >= 1 /\ d <= DaysInMonth(y, m)
        THEN Return(Date(y, m, d))
        ELSE Raise("ValueError")

\* the decimal digits of n, w wide, zero-padded
RECURSIVE Padded(_, _)
Padded(n, w) ==
    IF w = 0 THEN <<>> ELSE Append(Padded(n \div 10, w - 1), Digits[(n % 10) + 1])

\* date.isoformat()
isoformat(d) == Padded(d.y, 4) \o <<"-">> \o Padded(d.m, 2) \o <<"-">> \o Padded(d.d, 2)

\* a faulty variant of NotBefore: today itself is refused
StrictlyAfter(d, e) ==
    \/ d.y > e.y
    \/ d.y = e.y /\ d.m > e.m
    \/ d.y = e.y /\ d.m = e.m /\ d.d > e.d

\* d >= e of two dates
NotBefore(d, e) ==
    \/ d.y > e.y
    \/ d.y = e.y /\ d.m > e.m
    \/ d.y = e.y /\ d.m = e.m /\ d.d >= e.d

\* only_future_iso_or_none(s), s a Python value (None when absent)
only_future_iso_or_none(s) ==
    IF ~Truthy(s) THEN Return(NoneStr)
    ELSE IF s.t # "str" THEN Raise("TypeError")
    ELSE LET Checked(d) ==
                 IF d.raised THEN Return(NoneStr)
                 ELSE IF NotBefore(d.val, today) THEN Return(isoformat(d.val))
                 ELSE Return(NoneStr)
             Found(m) ==
                 IF m = 0 THEN Return(NoneStr)
                 ELSE The({Checked(d) : d \in {strptime(Slice(s.v, m, m + 10))}})
         IN  The({Found(m) : m \in {ISO_DATE_RE_search(s.v)}})

---------------------------------------------------------------------------
(* json.loads: objects, arrays, strings without escapes, integers, true,   *)
(* false and null; fractions, exponents and escapes are not modelled       *)

Fail == [ok |-> FALSE]
Parsed(x, n) == [ok |-> TRUE, val |-> x, nxt |-> n]

\* the character at position i ("" past the end)
CharAt(s, i) == IF i >= 1 /\ i <= Len(s) THEN s[i] ELSE ""

\* a dict with key k set to x
Put(f, k, x) == [y \in (DOMAIN f) \cup {k} |-> IF y = k THEN x ELSE f[y]]

EmptyDict == [y \in {} |-> JNull]

\* a string from the opening quote at i: up to the next quote, no control
\* character in between
ParseString(s, i) ==
    LET quotes == {j \in (i + 1)..Len(s) : s[j] = "\""}
    IN  IF quotes = {} THEN Fail
        ELSE LET q == Least(quotes)
             IN  IF \E j \in (i + 1)..(q - 1) : s[j] \in {"\n", "\r", "\t"}
                 THEN Fail
                 ELSE Parsed(JStr(Slice(s, i + 1, q)), q + 1)

\* an integer from position i: -?(0|[1-9]\d*)
ParseNumber(s, i) ==
    LET neg == CharAt(s, i) = "-"
        d == IF neg THEN i + 1 ELSE i
        stop == Least({j \in d..(Len(s) + 1) : j > Len(s) \/ ~IsDigit(s[j])})
        e == IF CharAt(s, d) = "0" THEN d + 1 ELSE stop
    IN  IF e = d THEN Fail
        ELSE Parsed(JNum(IF neg THEN 0 - IntAt(s, d, e - d) ELSE IntAt(s, d, e - d)), e)

LitNull == <<"n", "u", "l", "l">>
LitTrue == <<"t", "r", "u", "e">>
LitFalse == <<"f", "a", "l", "s", "e">>

RECURSIVE ParseValue(_, _)
RECURSIVE ParseItems(_, _, _)
RECURSIVE ParseMembers(_, _, _)

\* the values of an array from the first one at i, acc the ones before
ParseItems(s, i, acc) ==
    LET After(x) ==
            IF ~x.ok THEN Fail
            ELSE The({IF CharAt(s, j) = "]" THEN Parsed(JArr(Append(acc, x.val)), j + 1)
                      ELSE IF CharAt(s, j) = ","
                           THEN The({ParseItems(s, n, Append(acc, x.val)) :
                                        n \in {SkipSpaces(s, j + 1)}})
                      ELSE Fail :
                         j \in {SkipSpaces(s, x.nxt)}})
    IN  The({After(x) : x \in {ParseValue(s, i)}})

\* the members of an object from the first key at i, f the ones before (a
\* repeated key keeps its last value)
ParseMembers(s, i, f) ==
    LET AfterValue(k, x) ==
            IF ~x.ok THEN Fail
            ELSE The({IF CharAt(s, j) = "}" THEN Parsed(JObj(Put(f, k.val.v, x.val)), j + 1)
                      ELSE IF CharAt(s, j) = ","
                           THEN The({ParseMembers(s, n, g) :
                                        n \in {SkipSpaces(s, j + 1)},
                                        g \in {Put(f, k.val.v, x.val)}})
                      ELSE Fail :
                         j \in {SkipSpaces(s, x.nxt)}})
        AfterKey(k) ==
            IF ~k.ok THEN Fail
            ELSE The({IF CharAt(s, c) # ":" THEN Fail
                      ELSE The({AfterValue(k, x) :
                                   x \in {The({ParseValue(s, v) : v \in {SkipSpaces(s, c + 1)}})}}) :
                         c \in {SkipSpaces(s, k.nxt)}})
    IN  IF CharAt(s, i) # "\"" THEN Fail
        ELSE The({AfterKey(k) : k \in {ParseString(s, i)}})

\* the value that starts at position i
ParseValue(s, i) ==
    LET c == CharAt(s, i)
    IN  IF c = "\"" THEN ParseString(s, i)
        ELSE IF c = "{"
             THEN The({IF CharAt(s, j) = "}" THEN Parsed(JObj(EmptyDict), j + 1)
                       ELSE ParseMembers(s, j, EmptyDict) :
                          j \in {SkipSpaces(s, i + 1)}})
        ELSE IF c = "["
             THEN The({IF CharAt(s, j) = "]" THEN Parsed(JArr(<<>>), j + 1)
                       ELSE ParseItems(s, j, <<>>) :
                          j \in {SkipSpaces(s, i + 1)}})
        ELSE IF OccursAt(s, i, LitNull) THEN Parsed(JNull, i + 4)
        ELSE IF OccursAt(s, i, LitTrue) THEN Parsed(JBool(TRUE), i + 4)
        ELSE IF OccursAt(s, i, LitFalse) THEN Parsed(JBool(FALSE), i + 5)
        ELSE IF c = "-" \/ IsDigit(c) THEN ParseNumber(s, i)
        ELSE Fail

\* json.loads(text): the value, or JSONDecodeError (one value, spaces around
\* it, nothing else)
json_loads(text) ==
    The({IF x.ok /\ SkipSpaces(text, x.nxt) > Len(text)
         THEN Return(x.val)
         ELSE Raise("JSONDecodeError") :
            x \in {The({ParseValue(text, i) : i \in {SkipSpaces(text, 1)}})}})

---------------------------------------------------------------------------
(* Structured result recoverer                                             *)

\* the backtick, which a string of this language cannot hold, is written ^
FenceOpen == <<"^", "^", "^", "j", "s", "o", "n">>
FenceClose == <<"^", "^", "^">>

Closer(c) == IF c = "{" THEN "}" ELSE "]"

\* the fenced pattern ^^^json\s*(\{.*?\}|\[.*?\])\s*^^^ matched at position p:
\* where group 1 starts and the closers it can end on
FenceGroupStart(s, p) == SkipSpaces(s, p + Len(FenceOpen))

FenceGroupEnds(s, p) ==
    LET o == FenceGroupStart(s, p)
    IN  IF OccursAt(s, p, FenceOpen) /\ CharAt(s, o) \in {"{", "["}
        THEN {e \in (o + 1)..Len(s) :
                 /\ s[e] = Closer(s[o])
                 /\ OccursAt(s, SkipSpaces(s, e + 1), FenceClose)}
        ELSE {}

\* group 1 of the first match of the fenced pattern (the lazy .*? ends on the
\* first closer a fence end follows), <<>> with found FALSE when none
FencedBlock(s) ==
    LET at == {p \in 1..Len(s) : FenceGroupEnds(s, p) # {}}
    IN  IF at = {} THEN [found |-> FALSE, text |-> <<>>]
        ELSE LET p == Least(at)
             IN  [found |-> TRUE,
                  text |-> Slice(s, FenceGroupStart(s, p), Least(FenceGroupEnds(s, p)) + 1)]

\* (\{.*\}|\[.*\]) matched at position k with re.S: the greedy .* runs to the
\* last closer of the text; the position of that closer, 0 if no match
GreedyEnd(s, k) ==
    LET ends == {e \in (k + 1)..Len(s) : s[e] = Closer(s[k])}
    IN  IF CharAt(s, k) \in {"{", "["} /\ ends # {} THEN Greatest(ends) ELSE 0

\* re.findall(r"(\{.*\}|\[.*\])", text, re.S) from position i on
RECURSIVE FindAllFrom(_, _)
FindAllFrom(s, i) ==
    LET starts == {k \in i..Len(s) : GreedyEnd(s, k) > 0}
    IN  IF starts = {} THEN <<>>
        ELSE The({<<Slice(s, k, e + 1)>> \o FindAllFrom(s, e + 1) :
                     e \in {GreedyEnd(s, Least(starts))}, k \in {Least(starts)}})

candidates(text) == FindAllFrom(text, 1)

\* extract_json(text): the parsed value, None (JNull) when nothing parses
extract_json(text) ==
    LET Whole(whole) == IF ~whole.raised THEN whole.val ELSE JNull
        Bare(cands) ==
            LET good == {k \in 1..Len(cands) : ~json_loads(cands[k]).raised}
            IN  IF good # {} THEN json_loads(cands[Greatest(good)]).val
                ELSE The({Whole(whole) : whole \in {json_loads(text)}})
        Fenced(fenced) ==
            IF ~fenced.raised THEN fenced.val
            ELSE The({Bare(cands) : cands \in {candidates(text)}})
        Block(m) == IF m.found THEN json_loads(m.text) ELSE Raise("no match")
    IN  The({Fenced(fenced) :
                fenced \in {The({Block(m) : m \in {FencedBlock(text)}})}})

---------------------------------------------------------------------------
(* Prompt builder, item normaliser and extraction pipeline                 *)

KeySummary == <<"s", "u", "m", "m", "a", "r", "y">>
KeyItems == <<"i", "t", "e", "m", "s">>
KeyAction == <<"a", "c", "t", "i", "o", "n">>
KeyOwner == <<"o", "w", "n", "e", "r">>
KeyDue == <<"d", "u", "e">>

SUMMARY_LIMIT == 1000

\* the fixed instruction block and output schema of build_prompt, abridged to
\* its last line
PromptHead == <<"T", "r", "a", "n", "s", "c", "r", "i", "p", "t", " ", "(", "t", "i", "m", "e", "s", "t", "a", "m", "p", "s", " ", "a", "l", "r", "e", "a", "d", "y", " ", "r", "e", "m", "o", "v", "e", "d", " ", "w", "h", "e", "r", "e", " ", "p", "o", "s", "s", "i", "b", "l", "e", ")", ":", "\n">>

\* build_prompt(transcript): the transcript follows the instructions verbatim
build_prompt(transcript) == PromptHead \o transcript \o <<"\n">>

\* dict.get(k, default)
DictGet(d, k, default) == IF k \in DOMAIN d THEN d[k] ELSE default

\* x or y
Or(x, y) == IF Truthy(x) THEN x ELSE y

\* a faulty variant of OrNone: an empty text stays empty
KeepEmpty(text) == text

\* text or "None"
OrNone(text) == IF text = <<>> THEN NoneStr ELSE text

\* the keys of a dict as strings, in some order (the order of insertion is not
\* modelled)
RECURSIVE KeySeq(_)
KeySeq(ks) ==
    IF ks = {} THEN <<>>
    ELSE LET k == CHOOSE x \in ks : TRUE IN <<JStr(k)>> \o KeySeq(ks \ {k})

\* what "for it in x" draws: the elements of a list, the characters of a
\* string, the keys of a dict; TypeError for None, a number or a boolean
Iterate(x) ==
    CASE x.t = "arr" -> Return(x.v)
      [] x.t = "str" -> Return([k \in 1..Len(x.v) |-> JStr(<<x.v[k]>>)])
      [] x.t = "obj" -> Return(KeySeq(DOMAIN x.v))
      [] OTHER -> Raise("TypeError")

ActionItem(action, owner, due) ==
    [k \in {KeyAction, KeyOwner, KeyDue} |->
        IF k = KeyAction THEN JStr(action)
        ELSE IF k = KeyOwner THEN JStr(owner)
        ELSE JStr(due)]

\* one turn of the loop of analyze_transcript: the clean item, or the exception
\* of it.get on what is no dict, of .strip() on what is no string, or of the
\* date validator
normalize_item(it) ==
    IF it.t # "obj" THEN Raise("AttributeError")
    ELSE LET a == Or(DictGet(it.v, KeyAction, JNull), JStr(<<>>))
             o == Or(DictGet(it.v, KeyOwner, JNull), JStr(NoneStr))
         IN  IF a.t # "str" THEN Raise("AttributeError")
             ELSE IF o.t # "str" THEN Raise("AttributeError")
             ELSE LET due == only_future_iso_or_none(DictGet(it.v, KeyDue, JNull))
                  IN  IF due.raised THEN due
                      ELSE Return(JObj(ActionItem(OrNone(Strip(a.v)),
                                                  OrNone(Strip(o.v)),
                                                  due.val)))

\* raw[:1000]
Truncated(raw) == Slice(raw, 1, (IF Len(raw) < SUMMARY_LIMIT THEN Len(raw) ELSE SUMMARY_LIMIT) + 1)

Fallback(raw) ==
    JObj([k \in {KeySummary, KeyItems} |->
             IF k = KeySummary THEN JStr(Truncated(raw)) ELSE JArr(<<>>)])

\* the loop over the items and the assignment of the clean items: the data
\* with its items replaced, or the exception of the first item that raises
Cleaned(data, items) ==
    LET res == [k \in 1..Len(items) |-> normalize_item(items[k])]
        bad == {k \in 1..Len(items) : res[k].raised}
    IN  IF bad # {} THEN res[Least(bad)]
        ELSE Return(JObj(Put(data.v, KeyItems, JArr([k \in 1..Len(items) |-> res[k].val]))))

\* data.get("items", []) and what follows; data.get raises on what is no dict
Normalized(data) ==
    IF data.t # "obj" THEN Raise("AttributeError")
    ELSE The({IF its.raised THEN its ELSE Cleaned(data, its.val) :
                its \in {Iterate(DictGet(data.v, KeyItems, JArr(<<>>)))}})

\* analyze_transcript(transcript), response being what LLM.invoke(prompt) gives:
\* the text it returns or the exception it raises
analyze_transcript(transcript, response) ==
    IF response.raised THEN response
    ELSE The({Normalized(IF Truthy(got) THEN got ELSE Fallback(response.val)) :
                got \in {extract_json(response.val)}})

---------------------------------------------------------------------------
(* Inputs: texts made of fragments                                         *)

\* every text made of at most n fragments of frags
TextsOf(frags, n) ==
    UNION {{Concat([k \in 1..m |-> frags[f[k]]]) : f \in [1..m -> 1..Len(frags)]} :
              m \in 0..n}

\* the clock dates the model runs under
Todays == {Date(2024, 6, 15), Date(2024, 2, 29)}

---------------------------------------------------------------------------
(* The caption filter applied once, then again to its own output           *)

MaxVttFrags == 3

VttFragments ==
    << <<"0", "0", ":", "0", "0", ":", "0", "1", ".", "0", "0", "0", " ", "-", "-", ">", " ", "0", "0", ":", "0", "0", ":", "0", "4", ".", "0", "0", "0">>,
       <<"0", ":", "1", "2">>,
       <<"0", "1", ":", "0", "2", ":", "0", "3", ".", "5">>,
       <<"7">>,
       <<"W", "E", "B", "V", "T", "T">>,
       <<"h", "i">>,
       <<" ">>,
       <<"\n">>,
       <<"\t">>,
       <<":">> >>

VttIdle == vpc = "off" /\ vtt_text = <<>> /\ once = <<>> /\ twice = <<>>

DateIdle == dpc = "off" /\ cand = JNull /\ due_out = JNull
JsonIdle == jpc = "off" /\ jtext = <<>> /\ jdata = JNull
PipeIdle == ppc = "off" /\ reply = JNull /\ prompt = <<>> /\ result = JNull
AppIdle == apc = "off" /\ batch = <<>> /\ idx = 1 /\ sent = JNull /\ status = "" /\ rows = <<>>

TasksIdle ==
    /\ token = JNull
    /\ client_secrets = FALSE
    /\ tpc = "off"
    /\ creds = JNull
    /\ to_push = <<>>
    /\ pidx = 1
    /\ created = 0
    /\ tasks = <<>>
    /\ errors = <<>>

CredIdle == drive_creds = JNull /\ drive_files = <<>> /\ TasksIdle

VttInit ==
    /\ AppIdle
    /\ CredIdle
    /\ today = Date(2024, 6, 15)
    /\ DateIdle
    /\ JsonIdle
    /\ PipeIdle
    /\ vpc = "input"
    /\ vtt_text \in TextsOf(VttFragments, MaxVttFrags)
    /\ once = <<>>
    /\ twice = <<>>

FilterOnce ==
    /\ vpc = "input"
    /\ once' = parse_vtt(vtt_text)
    /\ vpc' = "once"
    /\ UNCHANGED <<vtt_text, twice, today, dateVars, jsonVars, pipeVars, appVars, rows, drive_creds, drive_files, credVars>>

FilterTwice ==
    /\ vpc = "once"
    /\ twice' = parse_vtt(once)
    /\ vpc' = "twice"
    /\ UNCHANGED <<vtt_text, once, today, dateVars, jsonVars, pipeVars, appVars, rows, drive_creds, drive_files, credVars>>

VttNext == FilterOnce \/ FilterTwice

SpecVtt == VttInit /\ [][VttNext]_vars

\* nothing is left in the text that a pass of the caption filter removes: it is
\* a single stripped line, no timing-range line, no header line, not purely
\* numeric, with no inline timecode and no run of two or more spaces
NoCaptionArtifacts(out) ==
    /\ Strip(out) = out
    /\ \A k \in 1..Len(out) : out[k] \notin {"\n", "\r"}
    /\ ~VTT_TS_LINE(out)
    /\ ~IsHeaderLine(out)
    /\ ~IsDigitStr(out)
    /\ \A k \in 1..Len(out) : VTT_INLINE_TS(out, k) = 0
    /\ \A k \in 1..(Len(out) - 1) : ~(IsSpace(out[k]) /\ IsSpace(out[k + 1]))

\* C9: caption filtering is idempotent: parse_vtt(parse_vtt(x)) = parse_vtt(x),
\* and one pass leaves no timing-range line, inline timecode, numeric line,
\* header line or run of spaces for a second pass to remove.
C9_FilterIdempotent ==
    vpc = "twice" => (twice = once /\ NoCaptionArtifacts(once))

\* a text with an inline timecode was filtered twice and something survived
C9_Witness ==
    /\ vpc = "twice"
    /\ once # <<>>
    /\ once # vtt_text
    /\ \E k \in 1..Len(vtt_text) : VTT_INLINE_TS(vtt_text, k) > 0

---------------------------------------------------------------------------
(* The date validator applied to a candidate                               *)

MaxDateFrags == 3

DateFragments ==
    << <<"2", "0", "2", "4", "-", "0", "6", "-", "1", "5">>,
       <<"2", "0", "2", "4", "-", "0", "6", "-", "1", "4">>,
       <<"2", "0", "2", "4", "-", "0", "6", "-", "2", "0">>,
       <<"2", "0", "2", "4", "-", "0", "6", "-", "3", "1">>,
       <<"2", "0", "2", "4", "-", "1", "3", "-", "0", "1">>,
       <<"2", "0", "2", "4", "-", "0", "2", "-", "2", "9">>,
       <<" ">>,
       <<"x">>,
       <<"1">> >>

\* the candidates: None, and the texts made of fragments (the empty one too)
DateCandidates == {JNull} \cup {JStr(x) : x \in TextsOf(DateFragments, MaxDateFrags)}

DateInit ==
    /\ AppIdle
    /\ CredIdle
    /\ today \in Todays
    /\ VttIdle
    /\ JsonIdle
    /\ PipeIdle
    /\ dpc = "input"
    /\ cand \in DateCandidates
    /\ due_out = JNull

Validate ==
    /\ dpc = "input"
    /\ due_out' = only_future_iso_or_none(cand)
    /\ dpc' = "done"
    /\ UNCHANGED <<cand, today, vttVars, jsonVars, pipeVars, appVars, rows, drive_creds, drive_files, credVars>>

DateNext == Validate

SpecDate == DateInit /\ [][DateNext]_vars

---------------------------------------------------------------------------
(* The recoverer applied to a model output                                 *)

MaxJsonFrags == 3

JsonFragments ==
    << <<"{", "x", "}">>,
       <<"{", "\"", "a", "\"", ":", "1", "}">>,
       <<"[", "2", "]">>,
       <<" ", "o", "r", " ">>,
       <<"^", "^", "^", "j", "s", "o", "n", " ">>,
       <<" ", "^", "^", "^">>,
       <<"{">>,
       <<"]">> >>

JsonInit ==
    /\ AppIdle
    /\ CredIdle
    /\ today = Date(2024, 6, 15)
    /\ VttIdle
    /\ DateIdle
    /\ PipeIdle
    /\ jpc = "input"
    /\ jtext \in TextsOf(JsonFragments, MaxJsonFrags)
    /\ jdata = JNull

Recover ==
    /\ jpc = "input"
    /\ jdata' = extract_json(jtext)
    /\ jpc' = "done"
    /\ UNCHANGED <<jtext, today, vttVars, dateVars, pipeVars, appVars, rows, drive_creds, drive_files, credVars>>

JsonNext == Recover

SpecJson == JsonInit /\ [][JsonNext]_vars

---------------------------------------------------------------------------
(* The pipeline applied to what the model gives                            *)

MaxItems == 2

\* raw items a model output may list
ItemTexts ==
    << <<"{", "\"", "a", "c", "t", "i", "o", "n", "\"", ":", "\"", "s", "h", "i", "p", "\"", ",", "\"", "o", "w", "n", "e", "r", "\"", ":", "\"", "B", "o", "\"", ",", "\"", "d", "u", "e", "\"", ":", "\"", "2", "0", "2", "4", "-", "0", "6", "-", "2", "0", "\"", "}">>,
       <<"{", "\"", "o", "w", "n", "e", "r", "\"", ":", "n", "u", "l", "l", ",", "\"", "d", "u", "e", "\"", ":", "\"", "n", "e", "x", "t", " ", "w", "e", "e", "k", "\"", "}">>,
       <<"{", "\"", "a", "c", "t", "i", "o", "n", "\"", ":", "\"", " ", "\"", ",", "\"", "o", "w", "n", "e", "r", "\"", ":", "\"", " ", "\"", ",", "\"", "d", "u", "e", "\"", ":", "\"", "2", "0", "2", "4", "-", "0", "6", "-", "1", "4", "\"", "}">>,
       <<"{", "\"", "a", "c", "t", "i", "o", "n", "\"", ":", "\"", "x", "\"", ",", "\"", "d", "u", "e", "\"", ":", "\"", "b", "y", " ", "2", "0", "2", "4", "-", "0", "6", "-", "3", "1", "\"", "}">>,
       <<"{", "\"", "a", "c", "t", "i", "o", "n", "\"", ":", "5", "}">>,
       <<"{", "\"", "a", "c", "t", "i", "o", "n", "\"", ":", "\"", "x", "\"", ",", "\"", "d", "u", "e", "\"", ":", "5", "}">>,
       <<"7">>,
       <<"{", "\"", "a", "c", "t", "i", "o", "n", "\"", ":", "\"", "a", "\"", ",", "\"", "d", "u", "e", "\"", ":", "\"", "2", "0", "2", "4", "-", "0", "6", "-", "1", "5", "\"", "}">> >>

\* model outputs that list no items the usual way
OtherTexts ==
    << <<"n", "o", " ", "i", "t", "e", "m", "s", " ", "h", "e", "r", "e">>,
       <<"[", "1", "]">>,
       <<"4", "2">>,
       <<"\"", "h", "i", "\"">>,
       <<"{", "\"", "s", "u", "m", "m", "a", "r", "y", "\"", ":", "\"", "s", "\"", "}">>,
       <<"{", "\"", "i", "t", "e", "m", "s", "\"", ":", "n", "u", "l", "l", "}">>,
       <<"{", "\"", "i", "t", "e", "m", "s", "\"", ":", "7", "}">>,
       <<"{", "\"", "i", "t", "e", "m", "s", "\"", ":", "\"", "a", "b", "\"", "}">>,
       <<"{", "\"", "i", "t", "e", "m", "s", "\"", ":", "{", "\"", "k", "\"", ":", "1", "}", "}">>,
       <<"0">>,
       <<"{", "}">> >>

ReplyHead == <<"{", "\"", "s", "u", "m", "m", "a", "r", "y", "\"", ":", "\"", "s", "\"", ",", "\"", "i", "t", "e", "m", "s", "\"", ":", "[">>
ReplyTail == <<"]", "}">>

\* the output that lists the items its (indices of ItemTexts), in this order
ReplyOf(its) ==
    LET P(k) == IF k = 1 THEN ItemTexts[its[k]] ELSE <<",">> \o ItemTexts[its[k]]
    IN  ReplyHead \o FlatMap(P, 1, Len(its)) \o ReplyTail

ReplyTexts ==
    UNION {{ReplyOf(its) : its \in [1..n -> 1..Len(ItemTexts)]} : n \in 0..MaxItems}
        \cup Range(OtherTexts)

\* what LLM.invoke gives: a text, or the exception of a failed call
Replies(texts) == {Return(x) : x \in texts} \cup {Raise("ConnectionError")}

SampleTranscript == <<"B", "o", " ", "s", "h", "i", "p", "s", " ", "i", "t", " ", "b", "y", " ", "2", "0", "2", "4", "-", "0", "6", "-", "2", "0">>

PipeInit ==
    /\ AppIdle
    /\ CredIdle
    /\ today \in Todays
    /\ VttIdle
    /\ DateIdle
    /\ JsonIdle
    /\ ppc = "input"
    /\ reply \in Replies(ReplyTexts)
    /\ prompt = <<>>
    /\ result = JNull

Analyze ==
    /\ ppc = "input"
    /\ prompt' = build_prompt(SampleTranscript)
    /\ result' = analyze_transcript(SampleTranscript, reply)
    /\ ppc' = "done"
    /\ UNCHANGED <<reply, today, vttVars, dateVars, jsonVars, appVars, rows, drive_creds, drive_files, credVars>>

PipeNext == Analyze

SpecPipe == PipeInit /\ [][PipeNext]_vars

---------------------------------------------------------------------------
(* C5: what the date validator is to return                                *)

\* the text from position i reads YYYY-MM-DD with the year in 2000..2099, the
\* month in 01..12 and the day in 01..31
IsoShapeAt(s, i) ==
    /\ i >= 1 /\ i + 9 <= Len(s)
    /\ \A k \in {0, 1, 2, 3, 5, 6, 8, 9} : IsDigit(s[i + k])
    /\ s[i + 4] = "-" /\ s[i + 7] = "-"
    /\ IntAt(s, i, 4) \in 2000..2099
    /\ IntAt(s, i + 5, 2) \in 1..12
    /\ IntAt(s, i + 8, 2) \in 1..31

\* neither a letter, a digit nor an underscore touches the ten characters at i
DelimitedAt(s, i) ==
    /\ i = 1 \/ ~IsWord(s[i - 1])
    /\ i + 10 > Len(s) \/ ~IsWord(s[i + 10])

MonthLengths == <<31, 28, 31, 30, 31, 30, 31, 31, 30, 31, 30, 31>>

\* day d of month m of year y (2000..2099) is a day of the calendar
RealDay(y, m, d) ==
    d <= (IF m = 2 /\ y % 4 = 0 /\ y # 2100 THEN 29 ELSE MonthLengths[m])

\* y-m-d is before today
BeforeToday(y, m, d) ==
    y * 10000 + m * 100 + d < today.y * 10000 + today.m * 100 + today.d

\* the result for candidate c when the deciding substring starts at the first
\* position of hits: "None" for no candidate, no substring, no real date or a
\* past one, else the substring itself
ExpectedDue(c, hits) ==
    IF c.t = "null" \/ c.v = <<>> \/ hits = {} THEN NoneStr
    ELSE LET i == Least(hits)
             y == IntAt(c.v, i, 4)
             m == IntAt(c.v, i + 5, 2)
             d == IntAt(c.v, i + 8, 2)
         IN  IF RealDay(y, m, d) /\ ~BeforeToday(y, m, d)
             THEN SubSeq(c.v, i, i + 9)
             ELSE NoneStr

ShapesIn(c) == IF c.t = "null" THEN {} ELSE {i \in 1..Len(c.v) : IsoShapeAt(c.v, i)}
DelimitedShapesIn(c) == {i \in ShapesIn(c) : DelimitedAt(c.v, i)}

\* C5 as stated: the first YYYY-MM-DD substring (year 2000-2099, month 01-12,
\* day 01-31) alone decides: "None" for an empty or absent input, for no such
\* substring, for one that is no real date or is before today; else the
\* substring itself.
C5_FirstSubstringDecides ==
    dpc = "done" => due_out = Return(ExpectedDue(cand, ShapesIn(cand)))

\* C5 amended: the same, of the first such substring that no letter, digit or
\* underscore touches on either side; a substring that one touches is passed
\* over.
C5_FirstDelimitedSubstringDecides ==
    dpc = "done" => due_out = Return(ExpectedDue(cand, DelimitedShapesIn(cand)))

\* a first date that is past or unreal is followed by a real one that is not
\* past, and the result is "None"
C5_Witness ==
    /\ dpc = "done"
    /\ cand.t = "str"
    /\ due_out.val = NoneStr
    /\ \E j \in DelimitedShapesIn(cand) :
          /\ j > Least(DelimitedShapesIn(cand))
          /\ RealDay(IntAt(cand.v, j, 4), IntAt(cand.v, j + 5, 2), IntAt(cand.v, j + 8, 2))
          /\ ~BeforeToday(IntAt(cand.v, j, 4), IntAt(cand.v, j + 5, 2), IntAt(cand.v, j + 8, 2))

---------------------------------------------------------------------------
(* C2: the last of several bare candidates                                 *)

OpenBraces(s) == {i \in 1..Len(s) : s[i] = "{"}
CloseBraces(s) == {i \in 1..Len(s) : s[i] = "}"}

\* the braces of the text read { } { } ...: every pair is a candidate of its
\* own, none inside another
BracePairsInARow(s) ==
    LET braces == OpenBraces(s) \cup CloseBraces(s)
        rank(i) == Cardinality({j \in braces : j <= i})
    IN  /\ \A i \in OpenBraces(s) : rank(i) % 2 = 1
        /\ \A i \in CloseBraces(s) : rank(i) % 2 = 0
        /\ Cardinality(braces) % 2 = 0

\* the candidate that opens at brace o: up to the next closing brace
BraceCandidate(s, o) == Slice(s, o, Least({c \in CloseBraces(s) : c > o}) + 1)

\* no json-labelled fence, no bracket, two or more brace-delimited candidates
\* in a row, and only the last of them is valid JSON
OnlyLastCandidateValid(s) ==
    /\ ~Contains(s, FenceOpen)
    /\ \A i \in 1..Len(s) : s[i] \notin {"[", "]"}
    /\ BracePairsInARow(s)
    /\ Cardinality(OpenBraces(s)) >= 2
    /\ \A o \in OpenBraces(s) :
          json_loads(BraceCandidate(s, o)).raised <=> o # Greatest(OpenBraces(s))

\* C2: with no json-labelled fenced block and two or more separate bare
\* brace-delimited candidates of which only the last is valid JSON,
\* extract_json returns the parse of that last candidate.
C2_LastCandidateReturned ==
    (jpc = "done" /\ OnlyLastCandidateValid(jtext))
        => jdata = json_loads(BraceCandidate(jtext, Greatest(OpenBraces(jtext)))).val

---------------------------------------------------------------------------
(* C1, C3, C4: what the pipeline returns                                   *)

\* the model returned a text and the pipeline has run on it
Analyzed == ppc = "done" /\ ~reply.raised

\* the value the recoverer finds in the model output
Recovered == extract_json(reply.val)

\* the raw items of the recovered value: its "items" when that is a sequence
RawItems ==
    IF Recovered.t = "obj" /\ KeyItems \in DOMAIN Recovered.v
          /\ Recovered.v[KeyItems].t = "arr"
    THEN Recovered.v[KeyItems].v
    ELSE <<>>

\* the value is an Extraction Result: an object with a summary and a sequence
\* of items
IsExtractionResult(x) ==
    /\ x.t = "obj"
    /\ {KeySummary, KeyItems} \subseteq DOMAIN x.v
    /\ x.v[KeyItems].t = "arr"

\* C1: malformed model output is never surfaced as a failure: for every text
\* the model returns, analyze_transcript returns an Extraction Result and does
\* not raise; when extract_json returns absent, the result is exactly
\* {summary: first 1000 characters of the raw response, items: []}.
C1_MalformedOutputNeverRaises ==
    Analyzed =>
        /\ ~result.raised
        /\ IsExtractionResult(result.val)
        /\ Recovered = JNull =>
              /\ result.val.v[KeySummary] = JStr(Truncated(reply.val))
              /\ result.val.v[KeyItems] = JArr(<<>>)

\* C3: item normalization is total: whatever the raw items of the recovered
\* sequence are, normalization does not raise and yields, for each of them,
\* an ActionItem with the three fields action, owner and due.
C3_NormalizationTotal ==
    (Analyzed /\ RawItems # <<>>) =>
        /\ ~result.raised
        /\ Len(result.val.v[KeyItems].v) = Len(RawItems)
        /\ \A k \in 1..Len(RawItems) :
              /\ result.val.v[KeyItems].v[k].t = "obj"
              /\ DOMAIN result.val.v[KeyItems].v[k].v = {KeyAction, KeyOwner, KeyDue}

\* the field of a raw item is absent, null, empty or nothing but spaces
BlankField(it, k) ==
    \/ it.t # "obj"
    \/ k \notin DOMAIN it.v
    \/ it.v[k].t = "null"
    \/ it.v[k].t = "str" /\ \A j \in 1..Len(it.v[k].v) : IsSpace(it.v[k].v[j])

\* the text is "None", or a YYYY-MM-DD that is a day of the calendar, today or
\* later
NoneOrComingDate(text) ==
    \/ text = NoneStr
    \/ /\ Len(text) = 10
       /\ IsoShapeAt(text, 1)
       /\ RealDay(IntAt(text, 1, 4), IntAt(text, 6, 2), IntAt(text, 9, 2))
       /\ ~BeforeToday(IntAt(text, 1, 4), IntAt(text, 6, 2), IntAt(text, 9, 2))

\* the items of the result the pipeline returned
ResultItems == result.val.v[KeyItems].v

\* C4: in every result analyze_transcript returns, every item has a non-empty
\* string action and a non-empty string owner ("None" where the raw field was
\* empty, only spaces, null or absent) and a due that is "None" or a
\* YYYY-MM-DD calendar date that is today or later.
C4_ItemsWellFormed ==
    (ppc = "done" /\ ~result.raised) =>
        \A k \in 1..Len(ResultItems) :
            LET it == ResultItems[k].v
            IN  /\ it[KeyAction].t = "str" /\ it[KeyAction].v # <<>>
                /\ it[KeyOwner].t = "str" /\ it[KeyOwner].v # <<>>
                /\ it[KeyDue].t = "str" /\ NoneOrComingDate(it[KeyDue].v)
                /\ BlankField(RawItems[k], KeyAction) => it[KeyAction].v = NoneStr
                /\ BlankField(RawItems[k], KeyOwner) => it[KeyOwner].v = NoneStr

\* a result with an item whose blank action became "None" and an item whose
\* due date was kept
C4_Witness ==
    /\ ppc = "done"
    /\ ~result.raised
    /\ \E k \in 1..Len(ResultItems) :
          /\ BlankField(RawItems[k], KeyAction)
          /\ ResultItems[k].v[KeyAction].v = NoneStr
    /\ \E k \in 1..Len(ResultItems) : ResultItems[k].v[KeyDue].v # NoneStr

---------------------------------------------------------------------------
(* Ingestion: the two loops that read, analyse and record transcripts      *)

VttSuffix == <<".", "v", "t", "t">>
WebVttToken == <<"W", "E", "B", "V", "T", "T">>

\* file.name.lower().endswith(".vtt")
HasVttName(name) == EndsWith(Lower(name), VttSuffix)

\* "WEBVTT" in raw.upper()
HasVttHeader(raw) == Contains(Upper(raw), WebVttToken)

\* a transcript file: its name and its text (ASCII, which decodes to itself)
File(name, content) == [name |-> name, content |-> content]

read_uploaded_text(file) ==
    IF HasVttName(file.name) THEN parse_vtt(file.content) ELSE file.content

\* fetched is what the chunked download gives: the text, or its exception
download_drive_file(fetched) ==
    IF fetched.raised THEN fetched
    ELSE Return(IF HasVttHeader(fetched.val) THEN parse_vtt(fetched.val) ELSE fetched.val)

Row(file, summary, action, owner, due) ==
    [File |-> file, Summary |-> summary, Action |-> action, Owner |-> owner, Due |-> due]

\* the mirror image of the rows, last row first
Reversed(rs) == [k \in 1..Len(rs) |-> rs[Len(rs) + 1 - k]]

\* a faulty variant of ItemRows: one row per item, but in the opposite order
ItemRowsBackwards(name, data) ==
    Reversed([k \in 1..Len(data[KeyItems].v) |->
                 Row(name,
                     DictGet(data, KeySummary, JStr(<<>>)),
                     DictGet(data[KeyItems].v[k].v, KeyAction, JStr(<<>>)),
                     DictGet(data[KeyItems].v[k].v, KeyOwner, JStr(NoneStr)),
                     DictGet(data[KeyItems].v[k].v, KeyDue, JStr(NoneStr)))])

\* for it in data["items"]: rows.append({...})
ItemRows(name, data) ==
    [k \in 1..Len(data[KeyItems].v) |->
        Row(name,
            DictGet(data, KeySummary, JStr(<<>>)),
            DictGet(data[KeyItems].v[k].v, KeyAction, JStr(<<>>)),
            DictGet(data[KeyItems].v[k].v, KeyOwner, JStr(NoneStr)),
            DictGet(data[KeyItems].v[k].v, KeyDue, JStr(NoneStr)))]

\* the row of a transcript without items
EmptyRow(name, data) ==
    << Row(name, DictGet(data, KeySummary, JStr(<<>>)), JStr(<<>>), JStr(NoneStr), JStr(NoneStr)) >>

\* if data.get("items"): ... else: ...
NewRows(name, data) ==
    IF Truthy(DictGet(data, KeyItems, JNull)) THEN ItemRows(name, data) ELSE EmptyRow(name, data)

\* what was handed to analyze_transcript, and for which file
Sent(name, raw, text) == [name |-> name, raw |-> raw, text |-> text]

\* credentials as the handlers see them
Creds(valid, expired, refresh_token) ==
    [t |-> "creds", valid |-> valid, expired |-> expired, refresh_token |-> refresh_token]

ValidCreds == Creds(TRUE, FALSE, TRUE)

MaxBatch == 2
MaxRows == 1

TxtName == <<"a", ".", "t", "x", "t">>
VttName == <<"b", ".", "V", "T", "T">>
PlainText == <<"h", "i", " ", "0", ":", "1", "2">>
CaptionText == <<"W", "e", "b", "V", "T", "T", "\n", "h", "i", " ", "0", ":", "1", "2">>

Files == {File(n, c) : n \in {TxtName, VttName}, c \in {PlainText, CaptionText}}

\* the lists of at least one and at most n elements of S
ListsOf(S, n) == UNION {[1..m -> S] : m \in 1..n}

\* what the file uploader may hold
Uploads == ListsOf(Files, MaxBatch)

\* what Drive may list (names are distinct)
Listings ==
    { <<File(TxtName, PlainText), File(VttName, CaptionText)>>,
      <<File(TxtName, CaptionText), File(VttName, PlainText)>> }

\* what the multiselect may hold: names of the listing, none twice
Selections(listing) ==
    {<<>>} \cup {sel \in ListsOf({listing[k].name : k \in 1..Len(listing)}, MaxBatch) :
                    \A i, j \in 1..Len(sel) : sel[i] = sel[j] => i = j}

\* what the model may give for a transcript
AppReplies ==
    { Raise("ConnectionError"),
      Return(OtherTexts[5]),
      Return(ReplyOf(<<1, 3>>)) }

\* what the download of a file may give
Fetches(file) == {Return(file.content), Raise("HttpError")}

IngestInit ==
    /\ today = Date(2024, 6, 15)
    /\ VttIdle
    /\ DateIdle
    /\ JsonIdle
    /\ PipeIdle
    /\ TasksIdle
    /\ apc = "idle"
    /\ batch = <<>>
    /\ idx = 1
    /\ sent = JNull
    /\ status = ""
    /\ rows = <<>>
    /\ drive_creds \in {JNull, ValidCreds}
    /\ drive_files \in Listings

\* if uploaded and st.button("Analyze Uploaded"): the loop is entered
UploadStart(uploaded) ==
    /\ apc = "idle"
    /\ Len(rows) < MaxRows
    /\ batch' = uploaded
    /\ idx' = 1
    /\ apc' = "upload"
    /\ status' = ""
    /\ UNCHANGED <<sent, rows, drive_creds, drive_files, today,
                   vttVars, dateVars, jsonVars, pipeVars, credVars>>

\* one round of "for up in uploaded"; an exception leaves the script
UploadStep(out) ==
    /\ apc = "upload"
    /\ idx <= Len(batch)
    /\ \E text \in {read_uploaded_text(batch[idx])} :
       \E data \in {analyze_transcript(text, out)} :
           /\ sent' = Sent(batch[idx].name, batch[idx].content, text)
           /\ reply' = out
           /\ prompt' = build_prompt(text)
           /\ result' = data
           /\ IF data.raised
              THEN /\ apc' = "idle"
                   /\ status' = "exception"
                   /\ UNCHANGED <<idx, rows>>
              ELSE /\ rows' = rows \o NewRows(batch[idx].name, data.val.v)
                   /\ idx' = idx + 1
                   /\ apc' = IF idx = Len(batch) THEN "idle" ELSE "upload"
                   /\ status' = IF idx = Len(batch) THEN "Parsed." ELSE status
    /\ UNCHANGED <<ppc, batch, drive_creds, drive_files, today,
                   vttVars, dateVars, jsonVars, credVars>>

\* next((f for f in drive_files if f["name"] == name), None)
Meta(name) ==
    LET at == {k \in 1..Len(drive_files) : drive_files[k].name = name}
    IN  IF at = {} THEN JNull ELSE drive_files[Least(at)]

\* if st.button("Summarize Selected from Drive"): the loop is entered, or is
\* over at once when nothing is selected
DriveStart(select) ==
    /\ apc = "idle"
    /\ drive_creds # JNull
    /\ Len(rows) < MaxRows
    /\ batch' = select
    /\ idx' = 1
    /\ apc' = IF select = <<>> THEN "idle" ELSE "drive"
    /\ status' = IF select = <<>> THEN "Done." ELSE ""
    /\ UNCHANGED <<sent, rows, drive_creds, drive_files, today,
                   vttVars, dateVars, jsonVars, pipeVars, credVars>>

\* one round of "for name in select"; an exception leaves the loop for the
\* handler of the whole section
DriveStep(out) ==
    /\ apc = "drive"
    /\ idx <= Len(batch)
    /\ \E meta \in {Meta(batch[idx])} :
           IF meta = JNull
           THEN /\ idx' = idx + 1
                /\ apc' = IF idx = Len(batch) THEN "idle" ELSE "drive"
                /\ status' = IF idx = Len(batch) THEN "Done." ELSE status
                /\ UNCHANGED <<rows, sent, pipeVars>>
           ELSE \E fetched \in Fetches(meta) :
                \E got \in {download_drive_file(fetched)} :
                    IF got.raised
                    THEN /\ apc' = "idle"
                         /\ status' = "Drive error"
                         /\ UNCHANGED <<idx, rows, sent, pipeVars>>
                    ELSE \E data \in {analyze_transcript(got.val, out)} :
                         /\ sent' = Sent(batch[idx], fetched.val, got.val)
                         /\ reply' = out
                         /\ prompt' = build_prompt(got.val)
                         /\ result' = data
                         /\ UNCHANGED ppc
                         /\ IF data.raised
                            THEN /\ apc' = "idle"
                                 /\ status' = "Drive error"
                                 /\ UNCHANGED <<idx, rows>>
                            ELSE /\ rows' = rows \o NewRows(batch[idx], data.val.v)
                                 /\ idx' = idx + 1
                                 /\ apc' = IF idx = Len(batch) THEN "idle" ELSE "drive"
                                 /\ status' = IF idx = Len(batch) THEN "Done." ELSE status
    /\ UNCHANGED <<batch, drive_creds, drive_files, today,
                   vttVars, dateVars, jsonVars, credVars>>

IngestNext ==
    \/ \E uploaded \in Uploads : UploadStart(uploaded)
    \/ \E out \in AppReplies : UploadStep(out)
    \/ \E select \in Selections(drive_files) : DriveStart(select)
    \/ \E out \in AppReplies : DriveStep(out)

SpecIngest == IngestInit /\ [][IngestNext]_vars

---------------------------------------------------------------------------
(* C6, C7, C8: routing, failures and rows of the ingestion loops           *)

\* the text that reaches the prompt when either signal of a caption file, the
\* name or the header token, sends the transcript through the caption filter
Routed(name, raw) ==
    IF HasVttName(name) \/ HasVttHeader(raw) THEN parse_vtt(raw) ELSE raw

\* C6: on both ingestion paths the transcript handed to analyze_transcript is
\* the caption-filtered text if its file name ends in .vtt or its content
\* holds WEBVTT (in any case, anywhere), and the unchanged text otherwise.
C6_EitherSignalRoutes ==
    sent # JNull => sent.text = Routed(sent.name, sent.raw)

\* C7: a transcript that fails does not stop the batch: when a handler is
\* over, every transcript of its batch has been processed.
C7_BatchOutlivesFailure ==
    (apc = "idle" /\ batch # <<>>) => idx = Len(batch) + 1

\* the rows a result owes the table: one per item, in the items' order, or
\* the single row of a result without items; each with the file's name and
\* the result's summary (empty when the result has none)
ExpectedRows(name, data) ==
    LET items == data[KeyItems].v
        summary == IF KeySummary \in DOMAIN data THEN data[KeySummary] ELSE JStr(<<>>)
    IN  IF Len(items) = 0
        THEN << [File |-> name, Summary |-> summary, Action |-> JStr(<<>>),
                 Owner |-> JStr(NoneStr), Due |-> JStr(NoneStr)] >>
        ELSE [k \in 1..Len(items) |->
                 [File |-> name, Summary |-> summary,
                  Action |-> items[k].v[KeyAction],
                  Owner |-> items[k].v[KeyOwner],
                  Due |-> items[k].v[KeyDue]]]

\* C8: a transcript analysed without failure appends exactly the rows of its
\* result, one per normalised item in the items' order or the one row with
\* Action "", Owner "None", Due "None" when there is no item, each carrying
\* the file name and the summary; no step changes a row already in the list.
C8_RowsAccumulate ==
    [][ /\ Len(rows) <= Len(rows') /\ SubSeq(rows', 1, Len(rows)) = rows
        /\ (apc \in {"upload", "drive"} /\ idx' = idx + 1)
              => rows' = rows \o ExpectedRows(sent'.name, result'.val.v)
        /\ idx' # idx + 1 => rows' = rows ]_vars

\* after a transcript without items, a transcript with two items has added
\* its two rows
C8_Witness ==
    /\ sent # JNull
    /\ ~result.raised
    /\ Len(result.val.v[KeyItems].v) = 2
    /\ Len(rows) = 3
    /\ rows[1].Action = JStr(<<>>)
    /\ rows[3].Action = result.val.v[KeyItems].v[2].v[KeyAction]

---------------------------------------------------------------------------
(* Credentials and the creation of tasks                                   *)

DrivePath == "token.drive.json"
TasksPath == "token.tasks.json"

\* Credentials.from_authorized_user_file inside its try: the credentials of a
\* readable file, None for an unreadable one; no file, no credentials
Loaded(file) == IF file.t \in {"absent", "unreadable"} THEN JNull ELSE file

\* creds.refresh(Request()) inside its try
Refreshed(c, refresh_ok) ==
    IF refresh_ok THEN Creds(TRUE, FALSE, c.refresh_token) ELSE JNull

\* what ensure_creds gives back, the token file it leaves, the error it shows
Ensured(c, file, error) == [creds |-> c, file |-> file, error |-> error]

\* refresh_ok, flow_ok: whether the refresh and the local OAuth flow (with
\* the writing of the token file) succeed when they are tried
ensure_creds(token_path, refresh_ok, flow_ok) ==
    LET loaded == Loaded(token[token_path])
    IN  IF loaded # JNull /\ loaded.valid
        THEN Ensured(loaded, token[token_path], "")
        ELSE LET kept == IF loaded # JNull /\ loaded.expired /\ loaded.refresh_token
                         THEN Refreshed(loaded, refresh_ok)
                         ELSE loaded
             IN  IF kept # JNull
                 THEN Ensured(kept, token[token_path], "")
                 ELSE IF ~client_secrets
                      THEN Ensured(JNull, token[token_path], "Missing credentials.json")
                      ELSE IF flow_ok
                           THEN Ensured(ValidCreds, ValidCreds, "")
                           ELSE Ensured(JNull, token[token_path], "OAuth failed")

\* the errors a script run shows: the given one, if there is one
Shown(error) == IF error = "" THEN <<>> ELSE <<error>>

TITLE_LIMIT == 255

meeting_title == <<"W", "e", "e", "k", "l", "y", " ", "S", "y", "n", "c">>

\* row["Action"][:255]
Title(row) ==
    Slice(row.Action.v, 1, (IF Len(row.Action.v) < TITLE_LIMIT THEN Len(row.Action.v) ELSE TITLE_LIMIT) + 1)

\* f"{meeting_title}\nOwner: {row['Owner']}\nFile: {row['File']}\n\nSummary:\n{row['Summary']}"
Notes(row) ==
    meeting_title \o <<"\n", "O", "w", "n", "e", "r", ":", " ">> \o row.Owner.v
        \o <<"\n", "F", "i", "l", "e", ":", " ">> \o row.File
        \o <<"\n", "\n", "S", "u", "m", "m", "a", "r", "y", ":", "\n">> \o row.Summary.v

\* row["Due"] if row["Due"] else "None"
DueOf(row) == IF row.Due.v # <<>> THEN row.Due.v ELSE NoneStr

\* the body push_to_google_tasks inserts
TaskBody(title, notes, due_iso) ==
    LET base == [k \in {"title"} |-> title]
        noted == IF notes # <<>> THEN Put(base, "notes", notes) ELSE base
    IN  IF due_iso # NoneStr
        THEN Put(noted, "due", due_iso \o <<"T", "0", "9", ":", "0", "0", ":", "0", "0", ".", "0", "0", "0", "Z">>)
        ELSE noted

MaxPush == 2
MaxTasks == 2

\* what a token file may be
TokenFiles ==
    { [t |-> "absent"], [t |-> "unreadable"],
      Creds(TRUE, FALSE, TRUE),      \* usable
      Creds(FALSE, TRUE, TRUE),      \* expired, with a refresh token
      Creds(FALSE, TRUE, FALSE),     \* expired, without a refresh token
      Creds(FALSE, FALSE, TRUE) }    \* without an access token and without an expiry

\* the rows of two analysed transcripts: one without items, one with two
StoredRows ==
    The({NewRows(TxtName, data.val.v) :
            data \in {analyze_transcript(PlainText, Return(OtherTexts[1]))}})
        \o The({NewRows(VttName, data.val.v) :
                   data \in {analyze_transcript(PlainText, Return(ReplyOf(<<1, 3>>)))}})

\* what the multiselect of rows may hold: positions of the table (from 0 on),
\* none twice
PushSelections ==
    {<<>>} \cup {sel \in ListsOf(0..(Len(rows) - 1), MaxPush) :
                    \A i, j \in 1..Len(sel) : sel[i] = sel[j] => i = j}

TasksInit ==
    /\ today = Date(2024, 6, 15)
    /\ VttIdle
    /\ DateIdle
    /\ JsonIdle
    /\ PipeIdle
    /\ apc = "idle"
    /\ batch = <<>>
    /\ idx = 1
    /\ sent = JNull
    /\ status = ""
    /\ rows = StoredRows
    /\ drive_creds = JNull
    /\ drive_files = <<>>
    /\ token \in [{DrivePath, TasksPath} -> TokenFiles]
    /\ client_secrets \in BOOLEAN
    /\ tpc = "idle"
    /\ creds = JNull
    /\ to_push = <<>>
    /\ pidx = 1
    /\ created = 0
    /\ tasks = <<>>
    /\ errors = <<>>

\* if st.button("Connect Google Drive"): ...
ConnectDrive(refresh_ok, flow_ok) ==
    /\ tpc = "idle"
    /\ \E got \in {ensure_creds(DrivePath, refresh_ok, flow_ok)} :
           /\ token' = [token EXCEPT ![DrivePath] = got.file]
           /\ errors' = Shown(got.error)
           /\ drive_creds' = IF got.creds # JNull THEN got.creds ELSE drive_creds
           /\ status' = IF got.creds # JNull THEN "Connected to Google Drive." ELSE ""
    /\ UNCHANGED <<client_secrets, tpc, creds, to_push, pidx, created, tasks,
                   apc, batch, idx, sent, rows, drive_files, today,
                   vttVars, dateVars, jsonVars, pipeVars>>

\* if st.button("Create Google Tasks for Selected"): up to the loop
CreateTasks(selected, refresh_ok, flow_ok) ==
    /\ tpc = "idle"
    /\ Len(tasks) < MaxTasks
    /\ IF selected = <<>>
       THEN /\ status' = "Select at least one row with an Action."
            /\ errors' = <<>>
            /\ UNCHANGED <<token, tpc, creds, to_push, pidx, created>>
       ELSE \E got \in {ensure_creds(TasksPath, refresh_ok, flow_ok)} :
                /\ token' = [token EXCEPT ![TasksPath] = got.file]
                /\ errors' = Shown(got.error)
                /\ status' = ""
                /\ IF got.creds = JNull
                   THEN UNCHANGED <<tpc, creds, to_push, pidx, created>>
                   ELSE /\ tpc' = "pushing"
                        /\ creds' = got.creds
                        /\ to_push' = selected
                        /\ pidx' = 1
                        /\ created' = 0
    /\ UNCHANGED <<client_secrets, tasks, drive_creds,
                   apc, batch, idx, sent, rows, drive_files, today,
                   vttVars, dateVars, jsonVars, pipeVars>>

\* one round of "for opt in to_push"; pushed: whether the insertion succeeds
PushStep(pushed) ==
    /\ tpc = "pushing"
    /\ pidx <= Len(to_push)
    /\ LET row == rows[to_push[pidx] + 1]
           made == IF row.Action.v # <<>> /\ pushed THEN 1 ELSE 0
       IN  /\ tasks' = IF made = 1
                       THEN Append(tasks, TaskBody(Title(row), Notes(row), DueOf(row)))
                       ELSE tasks
           /\ errors' = IF row.Action.v # <<>> /\ ~pushed
                        THEN Append(errors, "Task create error")
                        ELSE errors
           /\ created' = created + made
           /\ pidx' = pidx + 1
           /\ tpc' = IF pidx = Len(to_push) THEN "idle" ELSE "pushing"
           /\ status' = IF pidx = Len(to_push) THEN "Created task(s)." ELSE status
    /\ UNCHANGED <<token, client_secrets, creds, to_push, drive_creds,
                   apc, batch, idx, sent, rows, drive_files, today,
                   vttVars, dateVars, jsonVars, pipeVars>>

TasksNext ==
    \/ \E refresh_ok, flow_ok \in BOOLEAN : ConnectDrive(refresh_ok, flow_ok)
    \/ \E selected \in PushSelections : \E refresh_ok, flow_ok \in BOOLEAN :
          CreateTasks(selected, refresh_ok, flow_ok)
    \/ \E pushed \in BOOLEAN : PushStep(pushed)

SpecTasks == TasksInit /\ [][TasksNext]_vars

---------------------------------------------------------------------------
(* C10: credentials that are not valid                                     *)

\* C10: an operation that needs credentials never goes on with credentials
\* that are not valid: the credentials kept for Drive and the credentials the
\* task loop pushes with are valid ones.
C10_OnlyValidCredsInUse ==
    /\ drive_creds # JNull => drive_creds.valid
    /\ tpc = "pushing" => creds.valid

=============================================================================
